---------------------------- MODULE Spec2Model ----------------------------
(***************************************************************************)
(* A model of the rocket visualizer (eayavas/roket2d): the telemetry log   *)
(* reader (log_data.py), the particle system (particles.py), the derived   *)
(* visual state (rocket.py), the application window with its two           *)
(* scheduled callbacks (app.py) and the launcher (main.py).                *)
(*                                                                         *)
(* Numbers.  Python floats are modelled as exact fixed-point integers in   *)
(* thousandths: the float 1.5 is the integer 1500, a life of 0.5 s is 500, *)
(* a position of 300 px is 300000.  Integers of the program (the state     *)
(* code, colour channels, particle counts, window sizes) are kept as they  *)
(* are.  Text is a sequence of one-character strings, so that splitting    *)
(* and number parsing are computed character by character.                 *)
(***************************************************************************)
EXTENDS Integers, Sequences, FiniteSets, TLC

VARIABLES
    log_file_path,        \* LogReader.log_file_path: None or a path
    file,                 \* the log file on disk (the environment)
    test_generator,       \* LogReader.test_generator: None or the generator
    reader_current_data,  \* LogReader.current_data
    enabled,              \* ParticleSystem.enabled
    exhaust_particles,    \* ParticleSystem.exhaust_particles
    dust_particles,       \* ParticleSystem.dust_particles
    app,                  \* the RocketVisualizerApp window and its renderers
    lastCall,             \* history: the last call made, its inputs and results
    lastGood,             \* history: the sample of the last successful parse
    lastSlow              \* history: what the last read_log_data was handed

readerVars == <<log_file_path, file, test_generator, reader_current_data, lastGood>>

particleVars == <<enabled, exhaust_particles, dust_particles>>

appVars == <<app, lastSlow>>

vars == <<readerVars, particleVars, appVars, lastCall>>

(***************************************************************************)
(* Text                                                                    *)
(***************************************************************************)
Digits == <<"0", "1", "2", "3", "4", "5", "6", "7", "8", "9">>

DigitSet == {Digits[i] : i \in 1..Len(Digits)}

DigitValue == [c \in DigitSet |-> (CHOOSE i \in 1..Len(Digits) : Digits[i] = c) - 1]

IsDigit(c) == c \in DigitSet

DigitVal(c) == DigitValue[c]

IsSpace(c) == c = " " \/ c = "\n" \/ c = "\t" \/ c = "\r"

Min(S) == CHOOSE x \in S : \A y \in S : x <= y

\* The first position from i on, and the last position up to i, that holds no
\* whitespace (Len(s) + 1 and 0 when there is none).
RECURSIVE FirstInk(_, _)
FirstInk(s, i) ==
    IF i <= Len(s) /\ IsSpace(s[i]) THEN FirstInk(s, i + 1) ELSE i

RECURSIVE LastInk(_, _)
LastInk(s, i) ==
    IF i >= 1 /\ IsSpace(s[i]) THEN LastInk(s, i - 1) ELSE i

\* str.strip(): the text without its leading and trailing whitespace.
Strip(s) == SubSeq(s, FirstInk(s, 1), LastInk(s, Len(s)))

\* The runs of s that start at the positions starts and end at the positions
\* ends, in order.
RECURSIVE Runs(_, _, _)
Runs(s, starts, ends) ==
    IF starts = {} THEN <<>>
    ELSE LET b == Min(starts)
             e == Min(ends)
         IN  <<SubSeq(s, b, e)>> \o Runs(s, starts \ {b}, ends \ {e})

\* str.split() with no separator: the maximal runs of non-whitespace, in order.
Split(s) ==
    LET ink == {i \in 1..Len(s) : ~IsSpace(s[i])}
    IN  Runs(s, {i \in ink : i = 1 \/ (i - 1) \notin ink},
                {i \in ink : i = Len(s) \/ (i + 1) \notin ink})

\* The value of the first n digits of a run of decimal digits.
RECURSIVE PrefixVal(_, _)
PrefixVal(ds, n) ==
    IF n = 0 THEN 0 ELSE 10 * PrefixVal(ds, n - 1) + DigitVal(ds[n])

DigitsVal(ds) == PrefixVal(ds, Len(ds))

AllDigits(ds) == \A i \in 1..Len(ds) : IsDigit(ds[i])

Unsigned(tok) ==
    IF tok # <<>> /\ Head(tok) \in {"-", "+"} THEN Tail(tok) ELSE tok

Sign(tok) == IF tok # <<>> /\ Head(tok) = "-" THEN -1 ELSE 1

\* The first three fractional digits as thousandths.
FracMilli(ds) ==
    LET d(i) == IF i <= Len(ds) THEN DigitVal(ds[i]) ELSE 0
    IN  100 * d(1) + 10 * d(2) + d(3)

\* float(tok) for a token over digits, sign, point and other characters:
\* [sign] digits [. [digits]]  or  [sign] . digits; anything else raises
\* ValueError (ok = FALSE).  val is in thousandths.
ParseFloat(tok) ==
    LET u    == Unsigned(tok)
        dots == {i \in 1..Len(u) : u[i] = "."}
        ip   == IF dots = {} THEN u
                ELSE SubSeq(u, 1, (CHOOSE i \in dots : TRUE) - 1)
        fp   == IF dots = {} THEN <<>>
                ELSE SubSeq(u, (CHOOSE i \in dots : TRUE) + 1, Len(u))
        ok   == /\ Cardinality(dots) <= 1
                /\ AllDigits(ip) /\ AllDigits(fp)
                /\ Len(ip) + Len(fp) >= 1
    IN  IF ok THEN [ok |-> TRUE, val |-> Sign(tok) * (1000 * DigitsVal(ip) + FracMilli(fp))]
        ELSE [ok |-> FALSE, val |-> 0]

\* int(tok): [sign] digits; anything else raises ValueError (ok = FALSE).
ParseInt(tok) ==
    LET u == Unsigned(tok)
    IN  IF u # <<>> /\ AllDigits(u)
        THEN [ok |-> TRUE, val |-> Sign(tok) * DigitsVal(u)]
        ELSE [ok |-> FALSE, val |-> 0]

(***************************************************************************)
(* log_data.py: LogData, LogReader                                         *)
(***************************************************************************)
None == [none |-> TRUE]

\* The number of tokens parse_log_line requires.
NumFields == 18

\* LogData(): the all-zero sample.
LogData ==
    [timestamp |-> <<>>, altitude |-> 0, pressure |-> 0, temperature |-> 0,
     gps_altitude |-> 0, latitude |-> 0, longitude |-> 0,
     gyro_x |-> 0, gyro_y |-> 0, gyro_z |-> 0,
     acceleration_x |-> 0, acceleration_y |-> 0, acceleration_z |-> 0,
     pitch |-> 0, yaw |-> 0, roll |-> 0, battery |-> 0, state |-> 0]

\* The columns parsed with float(), by position (1-based: parts[1]..parts[16]
\* of the code are tokens 2..17).
FloatColumns == 2..(NumFields - 1)

\* The exception the conversions of parse_log_line raise on these tokens
\* ("none" when every one succeeds): float() and int() raise ValueError.
ConversionError(parts) ==
    IF \E i \in FloatColumns : ~ParseFloat(parts[i]).ok THEN "ValueError"
    ELSE IF ~ParseInt(parts[NumFields]).ok THEN "ValueError"
    ELSE "none"

\* A handler that catches IndexError alone.
ParseCaught_indexOnly == {"IndexError"}

\* The exceptions the except clause of parse_log_line catches.
ParseCaught == {"ValueError", "IndexError"}

\* An exception that leaves a method.
Raised(exc) == [raised |-> exc]

IsRaised(r) == "raised" \in DOMAIN r

IsSample(r) == "altitude" \in DOMAIN r

\* The assignments of parse_log_line: one field per column, in column order.
SampleOf(parts) ==
    [timestamp      |-> parts[1],
     altitude       |-> ParseFloat(parts[2]).val,
     pressure       |-> ParseFloat(parts[3]).val,
     temperature    |-> ParseFloat(parts[4]).val,
     gps_altitude   |-> ParseFloat(parts[5]).val,
     latitude       |-> ParseFloat(parts[6]).val,
     longitude      |-> ParseFloat(parts[7]).val,
     gyro_x         |-> ParseFloat(parts[8]).val,
     gyro_y         |-> ParseFloat(parts[9]).val,
     gyro_z         |-> ParseFloat(parts[10]).val,
     acceleration_x |-> ParseFloat(parts[11]).val,
     acceleration_y |-> ParseFloat(parts[12]).val,
     acceleration_z |-> ParseFloat(parts[13]).val,
     pitch          |-> ParseFloat(parts[14]).val,
     yaw            |-> ParseFloat(parts[15]).val,
     roll           |-> ParseFloat(parts[16]).val,
     battery        |-> ParseFloat(parts[17]).val,
     state          |-> ParseInt(parts[18]).val]

\* parse_log_line accepting only lines of exactly 18 tokens.
parse_log_line_exact(line) ==
    LET parts == Split(Strip(line))
    IN  IF Len(parts) # NumFields THEN None
        ELSE IF ConversionError(parts) # "none" THEN None
        ELSE SampleOf(parts)

\* LogReader.parse_log_line: a sample, or None when the line has fewer than
\* 18 tokens or a conversion raises an exception the method catches.
parse_log_line(line) ==
    LET parts == Split(Strip(line))
    IN  IF Len(parts) < NumFields THEN None
        ELSE IF ConversionError(parts) # "none"
        THEN IF ConversionError(parts) \in ParseCaught
             THEN None
             ELSE Raised(ConversionError(parts))
        ELSE SampleOf(parts)

(***************************************************************************)
(* Input lines                                                             *)
(***************************************************************************)
RECURSIVE Join(_, _)
Join(toks, sep) ==
    IF toks = <<>> THEN <<>>
    ELSE IF Len(toks) = 1 THEN toks[1]
    ELSE toks[1] \o sep \o Join(Tail(toks), sep)

\* The example line of the log format.
BaseTokens ==
    <<<<"1", "2", ":", "0", "0", ":", "0", "0", ".", "0", "0", "0">>,
      <<"1", "0", "0", ".", "0">>,
      <<"1", "0", "0", "1", ".", "0">>,
      <<"1", "4", ".", "3", "5">>,
      <<"0">>, <<"0">>, <<"0">>, <<"0">>, <<"0">>, <<"0">>,
      <<"0", ".", "1">>,
      <<"0", ".", "1">>,
      <<"1", "5", ".", "0">>,
      <<"5", ".", "0">>,
      <<"0">>, <<"0">>,
      <<"4", ".", "1">>,
      <<"1">>>>

\* A second well-formed line, with signs, bare points and a negative state.
OtherTokens ==
    <<<<"t", "2">>,
      <<"2", "5", "0", ".", "5">>,
      <<"9", "8", "3", ".", "1", "9">>,
      <<"-", "1", ".", "5">>,
      <<"2", "4", "0">>,
      <<"4", "1", ".", "0", "1", "5">>,
      <<"2", "8", ".", "9", "7">>,
      <<".", "5">>,
      <<"-", "0", ".", "2", "5">>,
      <<"5", ".">>,
      <<"0", ".", "5">>,
      <<"-", "0", ".", "5">>,
      <<"1", ".", "0">>,
      <<"-", "9", "0", ".", "0">>,
      <<"+", "2">>,
      <<"3", "6", "0">>,
      <<"3", ".", "7">>,
      <<"-", "3">>>>

\* Tokens substituted into a line: numbers of every accepted shape, and text
\* that float() or int() rejects.
SubstTokens ==
    { <<"7">>, <<"-", "2">>, <<"3", ".", "2", "5">>, <<"2", ".", "0">>,
      <<"x">>, <<"1", ".", "2", ".", "3">>, <<"-">>, <<".">>, <<"4", "x">> }

\* Tokens that may follow the 18th.
ExtraTokens == { <<"9">>, <<"x">> }

\* The most tokens a line carries after the 18th.
MaxExtra == 2

Subst(toks, i, t) == [toks EXCEPT ![i] = t]

ExtraSeqs == UNION { [1..n -> ExtraTokens] : n \in 0..MaxExtra }

SP == <<" ">>

\* Lines given to parse_log_line: well-formed lines, each with one token
\* replaced, cut short, extended, or spaced differently.
ParseLineSet ==
    { Join(Subst(BaseTokens, i, t), SP) : i \in 1..NumFields, t \in SubstTokens }
    \cup { Join(SubSeq(b, 1, n), SP) : b \in {BaseTokens, OtherTokens}, n \in 0..NumFields }
    \cup { Join(b \o e, SP) : b \in {BaseTokens, OtherTokens}, e \in ExtraSeqs }
    \cup { Join(Subst(OtherTokens, i, t) \o e, SP) :
             i \in {2, NumFields}, t \in {<<"7">>, <<"x">>}, e \in ExtraSeqs }
    \cup { <<" ", "\t">> \o Join(OtherTokens, <<" ", " ">>) \o <<"\r", "\n">>,
           Join(BaseTokens, <<"\t">>) \o <<"\n">>,
           <<" ", "\n">> }


(***************************************************************************)
(* log_data.py: TestLogGenerator                                           *)
(***************************************************************************)
RECURSIVE IntToDigits(_)
IntToDigits(n) ==
    IF n < 10 THEN <<Digits[n + 1]>>
    ELSE Append(IntToDigits(n \div 10), Digits[(n % 10) + 1])

Abs(n) == IF n < 0 THEN -n ELSE n

\* f"{v:.<decimals>f}" of a value with at most three decimals, decimals >= 3:
\* exact, padded with zeros.
FormatFixed(v, decimals) ==
    LET a == Abs(v)
        f == a % 1000
    IN  (IF v < 0 THEN <<"-">> ELSE <<>>)
        \o IntToDigits(a \div 1000) \o <<".">>
        \o <<Digits[(f \div 100) + 1], Digits[((f \div 10) % 10) + 1], Digits[(f % 10) + 1]>>
        \o [i \in 1..(decimals - 3) |-> "0"]

\* f"{v:.2f}": rounded to hundredths.  A value exactly half way between two
\* hundredths is rounded by its binary representation, up or down: the
\* caller passes the direction (up \in BOOLEAN) for that case.
FormatFixed2(v, up) ==
    LET a  == Abs(v)
        r  == a % 10
        h0 == a \div 10
        h  == IF r > 5 \/ (r = 5 /\ up) THEN h0 + 1 ELSE h0
    IN  (IF v < 0 THEN <<"-">> ELSE <<>>)
        \o IntToDigits(h \div 100) \o <<".">>
        \o <<Digits[((h \div 10) % 10) + 1], Digits[(h % 10) + 1]>>

\* TestLogGenerator(): altitude 0.0, pitch 0.0 (time_start is the clock's).
TestLogGenerator == [altitude |-> 0, pitch |-> 0]

\* What one call of generate_line takes from the clock and from random, in
\* thousandths: sine of math.sin(elapsed * 0.5) (the clock is the
\* environment's, so any value of the sine can be met), thrust of
\* random.uniform(5, 15), ax and ay of random.uniform(-0.5, 0.5), and up, the
\* direction in which the two-decimal formats round.
GeneratorDraws ==
    { [sine |-> -1000, ax |-> -500, ay |-> 250, thrust |-> 5000, up |-> FALSE],
      [sine |-> -500, ax |-> 250, ay |-> 250, thrust |-> 15000, up |-> TRUE],
      [sine |-> 0, ax |-> -500, ay |-> -500, thrust |-> 15000, up |-> FALSE],
      [sine |-> 1000, ax |-> 250, ay |-> -500, thrust |-> 5000, up |-> TRUE] }

\* The clock's timestamp text.
ClockStamps == { <<"0", "9", ":", "3", "0", ":", "0", "0", ".", "1", "2", "3">> }

\* generate_line leaving the altitude where it was.
GeneratorStep_noClimb(gen, sine) ==
    [altitude |-> gen.altitude, pitch |-> 15 * sine]

\* The state of the generator after the two assignments of generate_line.
GeneratorStep(gen, sine) ==
    [altitude |-> gen.altitude + 10000, pitch |-> 15 * sine]

\* TestLogGenerator.generate_line: the line formatted from the generator's
\* new state and this call's draws.
generate_line(gen, stamp, ax, ay, thrust, up) ==
    LET pressure    == 1013250 - (gen.altitude * 12) \div 100
        temperature == 15000 - (gen.altitude * 65) \div 10000
        accel_z     == 9810 + thrust
        Z           == <<"0">>
    IN  Join(<<stamp, FormatFixed(gen.altitude, 3), FormatFixed2(pressure, up),
               FormatFixed2(temperature, up), Z, Z, Z, Z, Z, Z,
               FormatFixed(ax, 6), FormatFixed(ay, 6), FormatFixed(accel_z, 5),
               FormatFixed(gen.pitch, 5), Z, Z, Z, <<"1">>>>, SP) \o <<"\n">>

(***************************************************************************)
(* The log file, and LogReader.read_latest_data                            *)
(***************************************************************************)
LogPath == [path |-> "flight.log"]

\* The most lines the log file holds.
MaxLines == 2

\* Lines written to the log file: well-formed, cut short, with a field that
\* is no number, blank.
FileLineSet ==
    { Join(BaseTokens, SP) \o <<"\n">>,
      Join(Subst(Subst(BaseTokens, 2, <<"6", "0", "0", "0", ".", "0">>),
                 14, <<"4", "5", "0", ".", "5">>), SP) \o <<"\n">>,
      Join(OtherTokens, SP) \o <<"\n">>,
      Join(OtherTokens \o << <<"x">> >>, <<" ", " ">>),
      Join(SubSeq(BaseTokens, 1, NumFields - 1), SP) \o <<"\n">>,
      Join(Subst(BaseTokens, 2, <<"x">>), SP) \o <<"\n">>,
      Join(Subst(OtherTokens, NumFields - 1, <<"1", ".", "2", ".", "3">>), SP),
      Join(Subst(BaseTokens, NumFields, <<"1", ".", "0">>), SP) \o <<"\n">>,
      <<"\n">> }

AbsentFile == [exists |-> FALSE, readable |-> FALSE, lines |-> <<>>]

\* The last line of the file, stripped, as read_latest_data hands it to the
\* parser.
LastLine(f) == Strip(f.lines[Len(f.lines)])

\* The file branch with open() outside the try block: an unreadable file
\* raises out of the method.
ReadFile_openUnguarded(f, cur) ==
    IF ~f.exists
    THEN [current |-> cur, parsed |-> None, propagated |-> FALSE]
    ELSE IF ~f.readable
    THEN [current |-> cur, parsed |-> None, propagated |-> TRUE]
    ELSE IF f.lines = <<>>
    THEN [current |-> cur, parsed |-> None, propagated |-> FALSE]
    ELSE LET data == parse_log_line(LastLine(f))
         IN  [current |-> IF IsSample(data) THEN data ELSE cur,
              parsed |-> data, propagated |-> FALSE]

\* The outcome of the file branch of read_latest_data: the sample held
\* afterwards, the parser's result (None when the parser was not reached), and
\* whether an exception left the method.  open(), readlines() and the parser
\* run inside try ... except Exception, which prints and goes on.
ReadFile(f, cur) ==
    IF ~f.exists
    THEN [current |-> cur, parsed |-> None, propagated |-> FALSE]
    ELSE IF ~f.readable
    THEN [current |-> cur, parsed |-> None, propagated |-> FALSE]
    ELSE IF f.lines = <<>>
    THEN [current |-> cur, parsed |-> None, propagated |-> FALSE]
    ELSE LET data == parse_log_line(LastLine(f))
         IN  IF IsRaised(data)
             THEN [current |-> cur, parsed |-> data, propagated |-> FALSE]
             ELSE [current |-> IF data # None THEN data ELSE cur,
                   parsed |-> data, propagated |-> FALSE]

\* The generator branch of read_latest_data, for a generated line: no try
\* block surrounds the parser here.
ReadGenerated(line, cur) ==
    LET data == parse_log_line(line)
    IN  IF IsRaised(data)
        THEN [current |-> cur, parsed |-> data, propagated |-> TRUE]
        ELSE [current |-> IF data # None THEN data ELSE cur,
              parsed |-> data, propagated |-> FALSE]

\* The most polls of the generator (its altitude grows without bound).
MaxPolls == 3

\* Whether a poll of this file reaches the parser.
FileHasLine(f) == f.exists /\ f.readable /\ f.lines # <<>>

\* LogReader.read_latest_data.  lastGood follows the parser's successes.
ReadLatestData ==
    /\ IF test_generator # None
       THEN /\ test_generator.altitude < 10000 * MaxPolls
            /\ \E g \in GeneratorDraws, stamp \in ClockStamps :
                 LET gen  == GeneratorStep(test_generator, g.sine)
                     line == generate_line(gen, stamp, g.ax, g.ay, g.thrust, g.up)
                     out  == ReadGenerated(line, reader_current_data)
                 IN  /\ test_generator' = gen
                     /\ reader_current_data' = out.current
                     /\ lastCall' = [op |-> "read_latest_data", generated |-> TRUE,
                                     parsed |-> out.parsed, propagated |-> out.propagated,
                                     ret |-> out.current]
                     /\ lastGood' = IF IsSample(out.parsed) THEN out.parsed ELSE lastGood
       ELSE LET out == IF log_file_path # None
                       THEN ReadFile(file, reader_current_data)
                       ELSE [current |-> reader_current_data,
                             parsed |-> None, propagated |-> FALSE]
            IN  /\ reader_current_data' = out.current
                /\ lastCall' = [op |-> "read_latest_data", generated |-> FALSE,
                                parsed |-> out.parsed, propagated |-> out.propagated,
                                ret |-> out.current]
                /\ lastGood' = IF /\ log_file_path # None
                                  /\ FileHasLine(file)
                                  /\ IsSample(parse_log_line(LastLine(file)))
                               THEN parse_log_line(LastLine(file)) ELSE lastGood
                /\ UNCHANGED test_generator
    /\ UNCHANGED <<log_file_path, file>>
    /\ UNCHANGED particleVars

\* The environment: the log file is created, written to, emptied, removed,
\* made unreadable or readable again.
FileCreate ==
    /\ ~file.exists
    /\ file' = [exists |-> TRUE, readable |-> TRUE, lines |-> <<>>]

FileAppend ==
    /\ file.exists
    /\ Len(file.lines) < MaxLines
    /\ \E l \in FileLineSet : file' = [file EXCEPT !.lines = Append(@, l)]

FileTruncate ==
    /\ file.exists
    /\ file.lines # <<>>
    /\ file' = [file EXCEPT !.lines = <<>>]

FileRemove ==
    /\ file.exists
    /\ file' = AbsentFile

FileChmod ==
    /\ file.exists
    /\ file' = [file EXCEPT !.readable = ~@]

FileChange ==
    /\ log_file_path # None
    /\ (FileCreate \/ FileAppend \/ FileTruncate \/ FileRemove \/ FileChmod)
    /\ lastCall' = [op |-> "file"]
    /\ UNCHANGED <<log_file_path, test_generator, reader_current_data, lastGood>>
    /\ UNCHANGED <<particleVars, appVars>>

\* LogReader(path), beside a log file that does not exist yet.
LogReader(path) ==
    /\ log_file_path = path
    /\ test_generator = IF path = None THEN TestLogGenerator ELSE None
    /\ reader_current_data = LogData
    /\ file = AbsentFile
    /\ lastGood = LogData

\* ParticleSystem(width, height, on).
ParticleSystem(on) ==
    /\ enabled = on
    /\ exhaust_particles = <<>>
    /\ dust_particles = <<>>

\* BackgroundRenderer.__init__: the default sky blue.
SkyBlue == <<135, 206, 235>>

\* No application window: nothing constructed, nothing polled.
NoApp ==
    [status |-> "absent", current_data |-> LogData, bg_color |-> SkyBlue,
     rocket_sprite |-> FALSE, rotation |-> 0]

WithoutApp ==
    /\ app = NoApp
    /\ lastSlow = LogData

\* A reader on its own, with or without a log path.
InitReader ==
    /\ \E path \in {None, LogPath} : LogReader(path)
    /\ ParticleSystem(FALSE)
    /\ WithoutApp
    /\ lastCall = [op |-> "init"]

\* A poll made on the reader directly.
Poll == ReadLatestData /\ UNCHANGED appVars

NextReader == Poll \/ FileChange

SpecReader == InitReader /\ [][NextReader]_vars

(***************************************************************************)
(* parse_log_line applied to every line of ParseLineSet                    *)
(***************************************************************************)
ParseLogLine ==
    /\ \E line \in ParseLineSet :
         lastCall' = [op |-> "parse_log_line", line |-> line,
                      result |-> parse_log_line(line)]
    /\ UNCHANGED <<readerVars, particleVars, appVars>>

NextParse == ParseLogLine

InitParse ==
    /\ LogReader(LogPath)
    /\ ParticleSystem(FALSE)
    /\ WithoutApp
    /\ lastCall = [op |-> "init"]

SpecParse == InitParse /\ [][NextParse]_vars


(***************************************************************************)
(* particles.py: Particle                                                  *)
(***************************************************************************)
\* int(n / d) of Python for d > 0: the quotient truncated towards zero.
IntTrunc(n, d) == IF n >= 0 THEN n \div d ELSE -((-n) \div d)

\* The largest k in lo..hi with k * k <= n, by bisection.
RECURSIVE SqrtBetween(_, _, _)
SqrtBetween(n, lo, hi) ==
    IF lo = hi THEN lo
    ELSE LET mid == (lo + hi + 1) \div 2
         IN  IF mid * mid <= n THEN SqrtBetween(n, mid, hi)
             ELSE SqrtBetween(n, lo, mid - 1)

\* The largest k with k * k <= n: int(math.sqrt(n)) for n >= 0.
ISqrt(n) == SqrtBetween(n, 0, 65535)

\* Particle(x, y, vx, vy, life, color): max_life is the life given; size is
\* the constructor's draw of random.uniform(1, 3).  Positions, velocities,
\* lives and sizes are in thousandths; the colour is (r, g, b, alpha).
Particle(x, y, vx, vy, life, color, size) ==
    [x |-> x, y |-> y, vx |-> vx, vy |-> vy, life |-> life, max_life |-> life,
     color |-> color, size |-> size]

\* Particle.update adding dt to the life instead of subtracting it.
ParticleUpdate_lifeUp(p, dt) ==
    [p EXCEPT !.x = p.x + (p.vx * dt) \div 1000,
              !.y = p.y + (p.vy * dt) \div 1000,
              !.life = p.life + dt]

\* Particle.update(dt): move, age, and set alpha to
\* max(0, int(255 * (life / max_life))).
ParticleUpdate(p, dt) ==
    LET life  == p.life - dt
        alpha == IntTrunc(255 * life, p.max_life)
    IN  [p EXCEPT !.x = p.x + (p.vx * dt) \div 1000,
                  !.y = p.y + (p.vy * dt) \div 1000,
                  !.life = life,
                  !.color = <<p.color[1], p.color[2], p.color[3],
                              IF alpha > 0 THEN alpha ELSE 0>>]

\* is_alive holding of every particle.
is_alive_always(p) == TRUE

\* Particle.is_alive().
is_alive(p) == p.life > 0

(***************************************************************************)
(* particles.py: ParticleSystem                                            *)
(***************************************************************************)
\* The window size RocketVisualizerApp gives its ParticleSystem.
WindowWidth == 600

WindowHeight == 600

\* math.sin and math.cos of a pitch in degrees (a key in thousandths of a
\* degree), in thousandths, for the pitches the particle calls are given.
TrigRows ==
    { <<0, 0, 1000>>, <<30000, 500, 866>>, <<45000, 707, 707>>,
      <<50000, 766, 643>>, <<60000, 866, 500>>, <<90000, 1000, 0>>,
      <<120000, 866, -500>>, <<130000, 766, -643>>, <<150000, 500, -866>>,
      <<180000, 0, -1000>>, <<210000, -500, -866>>, <<225000, -707, -707>>,
      <<240000, -866, -500>>, <<270000, -1000, 0>>, <<300000, -866, 500>>,
      <<330000, -500, 866>> }

TrigTable ==
    [p \in {r[1] : r \in TrigRows} |->
        LET r == CHOOSE q \in TrigRows : q[1] = p
        IN  [sin |-> r[2], cos |-> r[3]]]

SinT(pitch) == TrigTable[pitch].sin

CosT(pitch) == TrigTable[pitch].cos

\* x*x + y*y + z*z of an acceleration in thousandths (so in millionths).
SquareSum(ax, ay, az) == ax * ax + ay * ay + az * az

\* The particle count taken from the vertical acceleration alone.
NumExhaust_zOnly(ax, ay, az) == ISqrt((4 * az * az) \div 1000000)

\* num_particles of create_exhaust_particles: int(accel_magnitude * 2).
NumExhaust(ax, ay, az) == ISqrt((4 * SquareSum(ax, ay, az)) \div 1000000)

\* The dust count taken with the scale factor of the exhaust emitter.
NumDust_exhaustScale(ax, ay, az) == ISqrt((4 * SquareSum(ax, ay, az)) \div 1000000)

\* num_particles of create_dust_particles:
\* int(3 * max(0.1, speed_magnitude * 0.5)).
NumDust(ax, ay, az) ==
    IF 25 * SquareSum(ax, ay, az) <= 1000000
    THEN 0
    ELSE ISqrt((9 * SquareSum(ax, ay, az)) \div 4000000)

\* One exhaust particle of create_exhaust_particles, from its draws: jx, jy of
\* random.uniform(-50, 50), green of random.randint(100, 200), life of
\* random.uniform(0.5, 1.5), size of random.uniform(1, 3).
ExhaustParticle(rocket_x, rocket_y, pitch, d) ==
    Particle(1000 * rocket_x - SinT(pitch) * 40,
             1000 * rocket_y - CosT(pitch) * 40,
             1000 * d.jx - SinT(pitch) * 100,
             1000 * d.jy - CosT(pitch) * 100,
             d.life, <<255, d.green, 0, 255>>, d.size)

\* n / d truncated to an integer, for d of either sign.
Quot(n, d) == IF d > 0 THEN IntTrunc(n, d) ELSE IntTrunc(-n, -d)

\* The axis whose edge test create_dust_particles always takes.
DustAxis_alwaysX(nose_dx, nose_dy) == "x"

\* The axis create_dust_particles tests: the left or right edge when the
\* nose leans more sideways than up or down, else the top or bottom edge.
DustAxis(nose_dx, nose_dy) ==
    IF Abs(nose_dx) > Abs(nose_dy) THEN "x" ELSE "y"

\* t of create_dust_particles as the quotient it is computed from: a pixel
\* distance (dist) over a direction component (by, in thousandths).
DustT(window_width, window_height, nose_dx, nose_dy) ==
    LET center_x == window_width \div 2
        center_y == window_height \div 2
    IN  IF DustAxis(nose_dx, nose_dy) = "x"
        THEN [dist |-> IF nose_dx > 0 THEN window_width - center_x ELSE -center_x,
              by |-> nose_dx, other |-> nose_dy]
        ELSE [dist |-> IF nose_dy > 0 THEN window_height - center_y ELSE -center_y,
              by |-> nose_dy, other |-> nose_dx]

\* edge_x, edge_y of create_dust_particles in a window of the given size
\* (thousandths of a pixel); a zero divisor raises ZeroDivisionError.
DustEdgeIn(window_width, window_height, pitch) ==
    LET nose_dx  == SinT(pitch)
        nose_dy  == CosT(pitch)
        center_x == window_width \div 2
        center_y == window_height \div 2
        t        == DustT(window_width, window_height, nose_dx, nose_dy)
    IN  IF t.by = 0
        THEN [raised |-> "ZeroDivisionError", x |-> 1000 * center_x,
              y |-> 1000 * center_y]
        ELSE [raised |-> "none",
              x |-> 1000 * center_x + Quot(nose_dx * t.dist * 1000, t.by),
              y |-> 1000 * center_y + Quot(nose_dy * t.dist * 1000, t.by)]

\* start_x, start_y before the clamp: the edge point moved by the offset
\* along the perpendicular of the nose direction.
DustUnclamped(window_width, window_height, pitch, offset) ==
    LET edge == DustEdgeIn(window_width, window_height, pitch)
    IN  [x |-> edge.x + (-CosT(pitch)) * offset,
         y |-> edge.y + SinT(pitch) * offset]

\* The point where the nose direction leaves the window, as
\* create_dust_particles computes it (thousandths of a pixel).
DustEdge(pitch) == DustEdgeIn(WindowWidth, WindowHeight, pitch)

Clamp(lo, hi, v) == IF v < lo THEN lo ELSE IF v > hi THEN hi ELSE v

\* start_x, start_y left as they are before the clamp.
DustStart_unclamped(window_width, window_height, pitch, offset) ==
    DustUnclamped(window_width, window_height, pitch, offset)

\* start_x, start_y of create_dust_particles: clamped to the window.
DustStart(window_width, window_height, pitch, offset) ==
    LET u == DustUnclamped(window_width, window_height, pitch, offset)
    IN  [x |-> Clamp(0, 1000 * window_width, u.x),
         y |-> Clamp(0, 1000 * window_height, u.y)]

\* One dust particle of create_dust_particles, from its draws: offset of
\* random.uniform(-100, 100), jx, jy of random.uniform(-20, 20), gray of
\* random.randint(180, 255), alpha of random.randint(100, 200), life of
\* random.uniform(2.0, 4.0), size of random.uniform(1, 3).
DustParticle(ax, ay, az, pitch, d) ==
    LET nose_dx == SinT(pitch)
        nose_dy == CosT(pitch)
        start   == DustStart(WindowWidth, WindowHeight, pitch, d.offset)
        particle_speed == 50 * ISqrt(SquareSum(ax, ay, az))
    IN  Particle(start.x, start.y,
                 (-nose_dx * particle_speed) \div 1000 + 1000 * d.jx,
                 (-nose_dy * particle_speed) \div 1000 + 1000 * d.jy,
                 d.life, <<d.gray, d.gray, d.gray, d.alpha>>, d.size)

\* ParticleSystem.create_exhaust_particles: the exhaust population afterwards.
\* draws holds one record of draws per particle created.
create_exhaust_particles(on, exhaust, rocket_x, rocket_y, ax, ay, az, pitch, draws) ==
    IF ~on THEN exhaust
    ELSE exhaust \o [i \in 1..NumExhaust(ax, ay, az) |->
                        ExhaustParticle(rocket_x, rocket_y, pitch, draws[i])]

\* create_dust_particles without the early return of a disabled system.
create_dust_particles_noReturn(on, dust, ax, ay, az, pitch, draws) ==
    dust \o [i \in 1..NumDust(ax, ay, az) |->
                DustParticle(ax, ay, az, pitch, draws[i])]

\* ParticleSystem.create_dust_particles: the dust population afterwards.
create_dust_particles(on, dust, ax, ay, az, pitch, draws) ==
    IF ~on THEN dust
    ELSE dust \o [i \in 1..NumDust(ax, ay, az) |->
                     DustParticle(ax, ay, az, pitch, draws[i])]

\* update integrating every particle first and filtering on is_alive after.
UpdatePopulation_integrateThenCull(ps, dt) ==
    SelectSeq([i \in 1..Len(ps) |-> ParticleUpdate(ps[i], dt)], is_alive)

\* update without the filter on is_alive.
UpdatePopulation_noFilter(ps, dt) ==
    [i \in 1..Len(ps) |-> ParticleUpdate(ps[i], dt)]

\* One population after ParticleSystem.update(dt): the particles that are
\* alive are kept, then each of them is updated.
UpdatePopulation(ps, dt) ==
    LET alive == SelectSeq(ps, is_alive)
    IN  [i \in 1..Len(alive) |-> ParticleUpdate(alive[i], dt)]

(***************************************************************************)
(* The particle system on its own: any caller, any inputs                  *)
(***************************************************************************)
\* Accelerations (x, y, z) given to the emitters, in thousandths.
AccelVals ==
    { <<0, 0, 0>>, <<0, 0, 500>>, <<300, 400, 0>>, <<0, 700, 0>>,
      <<0, 0, -1000>>, <<1000, 1000, 1000>> }

\* Pitches given to the emitters, in thousandths of a degree.
PitchVals == {90000}

\* Frame times given to update, in thousandths of a second.
DtVals == {500, 1000}

\* Draws of one exhaust particle and of one dust particle.
ExhaustDraws ==
    { [jx |-> -50, jy |-> 50, green |-> 100, life |-> 500, size |-> 1000],
      [jx |-> 50, jy |-> -50, green |-> 200, life |-> 1500, size |-> 3000] }

DustDraws ==
    { [offset |-> -100, jx |-> -20, jy |-> 20, gray |-> 180, alpha |-> 100,
       life |-> 2000, size |-> 1000],
      [offset |-> 100, jx |-> 20, jy |-> -20, gray |-> 255, alpha |-> 200,
       life |-> 3000, size |-> 3000] }

\* The most particles the two populations hold together.
MaxParticles == 2

Population == Len(exhaust_particles) + Len(dust_particles)

\* A particle system on its own, enabled or not.
InitParticles ==
    /\ LogReader(LogPath)
    /\ \E on \in BOOLEAN : ParticleSystem(on)
    /\ WithoutApp
    /\ lastCall = [op |-> "init"]

\* A call of create_exhaust_particles, at the window's centre.
CreateExhaust ==
    \E a \in AccelVals, pitch \in PitchVals :
        /\ enabled => Population + NumExhaust(a[1], a[2], a[3]) <= MaxParticles
        /\ \E draws \in [1..NumExhaust(a[1], a[2], a[3]) -> ExhaustDraws] :
             exhaust_particles' =
                 create_exhaust_particles(enabled, exhaust_particles,
                     WindowWidth \div 2, WindowHeight \div 2,
                     a[1], a[2], a[3], pitch, draws)
        /\ lastCall' = [op |-> "create_exhaust_particles", accel |-> a]
        /\ UNCHANGED <<enabled, dust_particles, readerVars, appVars>>

\* A call of create_dust_particles.
CreateDust ==
    \E a \in AccelVals, pitch \in PitchVals :
        /\ enabled => Population + NumDust(a[1], a[2], a[3]) <= MaxParticles
        /\ \E draws \in [1..NumDust(a[1], a[2], a[3]) -> DustDraws] :
             dust_particles' =
                 create_dust_particles(enabled, dust_particles,
                     a[1], a[2], a[3], pitch, draws)
        /\ lastCall' = [op |-> "create_dust_particles", accel |-> a]
        /\ UNCHANGED <<enabled, exhaust_particles, readerVars, appVars>>

\* A call of ParticleSystem.update(dt).
Update ==
    \E dt \in DtVals :
        /\ exhaust_particles' = UpdatePopulation(exhaust_particles, dt)
        /\ dust_particles' = UpdatePopulation(dust_particles, dt)
        /\ lastCall' = [op |-> "update", dt |-> dt]
        /\ UNCHANGED <<enabled, readerVars, appVars>>

\* Particle.draw: the circle drawn for a particle.
Circle(p) ==
    [x |-> p.x, y |-> p.y, radius |-> p.size,
     color |-> SubSeq(p.color, 1, 3), opacity |-> p.color[4]]

\* ParticleSystem.draw: the circles drawn, the dust first, then the exhaust.
draw(dust, exhaust) ==
    [i \in 1..Len(dust) |-> Circle(dust[i])]
        \o [i \in 1..Len(exhaust) |-> Circle(exhaust[i])]

\* A call of ParticleSystem.draw().
Draw ==
    /\ lastCall' = [op |-> "draw", drawn |-> draw(dust_particles, exhaust_particles)]
    /\ UNCHANGED <<particleVars, readerVars, appVars>>

NextParticles == CreateExhaust \/ CreateDust \/ Update \/ Draw

SpecParticles == InitParticles /\ [][NextParticles]_vars

(***************************************************************************)
(* Claims on the parser and the reader                                     *)
(***************************************************************************)
\* A line with fewer than 18 tokens, or whose tokens 2..17 are not all floats,
\* or whose token 18 is no integer.
Malformed(line) ==
    LET parts == Split(line)
    IN  \/ Len(parts) < 18
        \/ \E i \in 2..17 : ~ParseFloat(parts[i]).ok
        \/ ~ParseInt(parts[18]).ok

\* C1: a poll whose line is malformed gets None from parse_log_line, no
\* exception leaves the poll, the held sample is unchanged in every field, and
\* the poll returns it.
C1_MalformedKeepsSample ==
    [][ ( /\ lastCall'.op = "read_latest_data"
          /\ log_file_path # None
          /\ FileHasLine(file)
          /\ Malformed(file.lines[Len(file.lines)]) )
        => ( /\ lastCall'.parsed = None
             /\ ~lastCall'.propagated
             /\ reader_current_data' = reader_current_data
             /\ lastCall'.ret = reader_current_data ) ]_vars

\* C1 witness: a poll of a malformed last line that kept an earlier, non-zero
\* sample.
C1_Witness ==
    /\ lastCall.op = "read_latest_data"
    /\ log_file_path # None
    /\ FileHasLine(file)
    /\ Malformed(file.lines[Len(file.lines)])
    /\ lastCall.parsed = None
    /\ reader_current_data # LogData
    /\ lastCall.ret = reader_current_data

\* C2: in file-backed mode a poll of an absent, unreadable or empty file
\* returns the held sample unchanged and raises nothing; after any sequence of
\* polls the held sample is the one of the last successful parse (the all-zero
\* sample when there was none).
C2_FailedReadKeepsSample ==
    /\ [][ ( /\ lastCall'.op = "read_latest_data"
             /\ log_file_path # None
             /\ ~FileHasLine(file) )
           => ( /\ reader_current_data' = reader_current_data
                /\ lastCall'.ret = reader_current_data
                /\ ~lastCall'.propagated ) ]_vars
    /\ [](log_file_path # None =>
            /\ reader_current_data = lastGood
            /\ (lastCall.op = "read_latest_data" =>
                  ~lastCall.propagated /\ lastCall.ret = lastGood))

\* C2 witness: a poll of an unreadable file that kept an earlier, non-zero
\* sample.
C2_Witness ==
    /\ lastCall.op = "read_latest_data"
    /\ log_file_path # None
    /\ file.exists /\ ~file.readable
    /\ reader_current_data # LogData
    /\ lastCall.ret = reader_current_data

\* The 18 fields of a sample in column order.
FieldOrder ==
    <<"timestamp", "altitude", "pressure", "temperature", "gps_altitude",
      "latitude", "longitude", "gyro_x", "gyro_y", "gyro_z",
      "acceleration_x", "acceleration_y", "acceleration_z",
      "pitch", "yaw", "roll", "battery", "state">>

\* C3: for a line with at least 18 well-formed tokens parse_log_line returns
\* the sample whose 18 fields are the typed values of tokens 1..18 in column
\* order (the timestamp as text, the state as an integer, the others as
\* floats), whatever follows the 18th token; the example line of the format
\* gives altitude 100.0, pitch 5.0 and state 1.
C3_WellFormedRoundTrip ==
    lastCall.op = "parse_log_line" =>
        LET parts == Split(lastCall.line)
            r     == lastCall.result
        IN  /\ ~Malformed(lastCall.line) =>
                 /\ DOMAIN r = {FieldOrder[i] : i \in 1..18}
                 /\ r.timestamp = parts[1]
                 /\ \A i \in 2..17 : r[FieldOrder[i]] = ParseFloat(parts[i]).val
                 /\ r.state = ParseInt(parts[18]).val
                 /\ r = parse_log_line(Join(SubSeq(parts, 1, 18), SP))
            /\ lastCall.line = Join(BaseTokens, SP) =>
                 r.altitude = 100000 /\ r.pitch = 5000 /\ r.state = 1
                 /\ r.temperature = 14350 /\ r.battery = 4100

\* C3 witness: a well-formed line with tokens after the 18th was parsed into a
\* sample.
C3_Witness ==
    /\ lastCall.op = "parse_log_line"
    /\ Len(Split(lastCall.line)) > 18
    /\ ~Malformed(lastCall.line)
    /\ IsSample(lastCall.result)
    /\ lastCall.result.state = -3


(***************************************************************************)
(* Claims on the particle system                                           *)
(***************************************************************************)
Particles == exhaust_particles \o dust_particles

Alpha(p) == p.color[4]

\* C4 as claimed: after every update neither population holds a particle
\* whose life is <= 0.
C4_NoDeadAfterUpdate ==
    lastCall.op = "update" =>
        \A i \in 1..Len(Particles) : Particles[i].life > 0

\* C4 as amended: update removes exactly the particles whose life was <= 0
\* before the call and keeps the others in order; a particle whose life
\* reaches <= 0 during the call stays, with alpha 0, until the next update.
C4_DeadRemovedByNextUpdate ==
    [][ lastCall'.op = "update" =>
          /\ Len(exhaust_particles') = Len(SelectSeq(exhaust_particles, is_alive))
          /\ Len(dust_particles') = Len(SelectSeq(dust_particles, is_alive))
          /\ \A i \in 1..Len(Particles') :
                /\ Particles'[i].life > -lastCall'.dt
                /\ Particles'[i].life <= 0 => Alpha(Particles'[i]) = 0 ]_vars

\* C4 witness: an update has returned and a particle whose life it brought to
\* <= 0 is still held, with alpha 0.
C4_Witness ==
    /\ lastCall.op = "update"
    /\ \E i \in 1..Len(Particles) :
          Particles[i].life <= 0 /\ Alpha(Particles[i]) = 0

\* C5: the alpha of a particle never increases from one state to the next,
\* starting from the alpha it was created with.  The particles a step keeps
\* are the live ones of an update, in order, and all of them otherwise.
C5_AlphaNeverIncreases ==
    [][ LET kept(ps) == IF lastCall'.op = "update" THEN SelectSeq(ps, is_alive) ELSE ps
        IN  /\ \A i \in 1..Len(kept(exhaust_particles)) :
                  Alpha(exhaust_particles'[i]) <= Alpha(kept(exhaust_particles)[i])
            /\ \A i \in 1..Len(kept(dust_particles)) :
                  Alpha(dust_particles'[i]) <= Alpha(kept(dust_particles)[i]) ]_vars

\* C6 as claimed: every particle held has 0 <= life <= max_life.
C6_LifeWithinBounds ==
    \A i \in 1..Len(Particles) :
        0 <= Particles[i].life /\ Particles[i].life <= Particles[i].max_life

\* C6 as amended: every particle held has life <= max_life and max_life > 0;
\* its life may be <= 0, by less than one frame time.
C6_LifeAtMostInitial ==
    \A i \in 1..Len(Particles) :
        /\ Particles[i].life <= Particles[i].max_life
        /\ Particles[i].max_life > 0
        /\ \E dt \in DtVals : Particles[i].life > -dt

\* C6 witness: after an update one particle is held with 0 < life < max_life
\* and another with life < 0.
C6_Witness ==
    /\ lastCall.op = "update"
    /\ \E i \in 1..Len(Particles) :
          0 < Particles[i].life /\ Particles[i].life < Particles[i].max_life
    /\ \E i \in 1..Len(Particles) : Particles[i].life < 0

\* C8: a disabled system never holds a particle, and its emitters change
\* neither population whatever they are given.
C8_DisabledEmittersDoNothing ==
    /\ [](~enabled => exhaust_particles = <<>> /\ dust_particles = <<>>)
    /\ [][ ( /\ ~enabled
             /\ lastCall'.op \in {"create_exhaust_particles", "create_dust_particles"} )
           => UNCHANGED <<exhaust_particles, dust_particles>> ]_vars

\* C8 witness: a disabled system was asked for dust at an acceleration that
\* an enabled one turns into particles.
C8_Witness ==
    /\ ~enabled
    /\ lastCall.op = "create_dust_particles"
    /\ lastCall.accel = <<1000, 1000, 1000>>
    /\ dust_particles = <<>>

\* C10: on an enabled system one call of create_exhaust_particles appends
\* exactly n particles to the exhaust population, where n <= 2 * m < n + 1
\* for the Euclidean magnitude m of the acceleration, and leaves the dust
\* population alone.
C10_ExhaustCount ==
    [][ (enabled /\ lastCall'.op = "create_exhaust_particles") =>
          LET a  == lastCall'.accel
              sq == a[1] * a[1] + a[2] * a[2] + a[3] * a[3]
              n  == Len(exhaust_particles') - Len(exhaust_particles)
          IN  /\ n >= 0
              /\ n * n * 1000000 <= 4 * sq
              /\ 4 * sq < (n + 1) * (n + 1) * 1000000
              /\ SubSeq(exhaust_particles', 1, Len(exhaust_particles)) = exhaust_particles
              /\ dust_particles' = dust_particles ]_vars

\* C10 witness: an acceleration of magnitude 0.5 with no vertical part has
\* added its one exhaust particle.
C10_Witness ==
    /\ enabled
    /\ lastCall.op = "create_exhaust_particles"
    /\ lastCall.accel = <<300, 400, 0>>
    /\ Len(exhaust_particles) = 2
    /\ dust_particles = <<>>


(***************************************************************************)
(* rocket.py, app.py and main.py: the application                          *)
(***************************************************************************)
\* Midnight blue, the colour of update_color at 5000 m and above.
MidnightBlue == <<25, 25, 112>>

\* update_color without the clamp of the altitude to [0, 5000].
update_color_unclamped(altitude) ==
    LET c(i) == IntTrunc(SkyBlue[i] * (5000000 - altitude) + MidnightBlue[i] * altitude,
                         5000000)
    IN  <<c(1), c(2), c(3)>>

\* BackgroundRenderer.update_color: the colour for an altitude (thousandths
\* of a metre), each channel truncated by int().
update_color(altitude) ==
    LET alt  == IF altitude < 0 THEN 0
                ELSE IF altitude > 5000000 THEN 5000000 ELSE altitude
        c(i) == (SkyBlue[i] * (5000000 - alt) + MidnightBlue[i] * alt) \div 5000000
    IN  <<c(1), c(2), c(3)>>

\* update_rotation storing the pitch itself.
update_rotation_sameSign(a, pitch) ==
    IF a.rocket_sprite THEN [a EXCEPT !.rotation = pitch] ELSE a

\* RocketRenderer.update_rotation: only a loaded sprite is rotated.
update_rotation(a, pitch) ==
    IF a.rocket_sprite THEN [a EXCEPT !.rotation = -pitch] ELSE a

\* read_log_data that drops what the reader returned.
read_log_data_dropped(a, data) == a

\* RocketVisualizerApp.read_log_data: store what the reader returned.
read_log_data(a, data) == [a EXCEPT !.current_data = data]

\* The parameters RocketVisualizerApp.__init__ accepts beside self.
AppParameters == {"log_file_path", "width", "height"}

\* The keyword arguments main() passes to RocketVisualizerApp.
MainKeywords == {"enable_particles"}

\* RocketVisualizerApp.__init__(log_file_path): a reader on the path, a
\* particle system built as ParticleSystem(width, height), the renderers
\* (the sprite is loaded or, when the asset fails to load, None) and an
\* all-zero current sample.
AppInit(path, sprite) ==
    /\ log_file_path' = path
    /\ test_generator' = IF path = None THEN TestLogGenerator ELSE None
    /\ reader_current_data' = LogData
    /\ lastGood' = LogData
    /\ enabled' = FALSE
    /\ exhaust_particles' = <<>>
    /\ dust_particles' = <<>>
    /\ app' = [status |-> "running", current_data |-> LogData,
               bg_color |-> SkyBlue, rocket_sprite |-> sprite, rotation |-> 0]
    /\ lastSlow' = LogData
    /\ UNCHANGED file

\* The application constructed directly, on a log path or on none.
Construct ==
    /\ app.status = "absent"
    /\ \E path \in {None, LogPath}, sprite \in BOOLEAN :
         /\ AppInit(path, sprite)
         /\ lastCall' = [op |-> "RocketVisualizerApp", log |-> path]

\* main(): the parsed arguments go to RocketVisualizerApp(args.log,
\* enable_particles=args.particles); a keyword the constructor does not
\* accept raises TypeError before anything is constructed.
Main ==
    /\ app.status = "absent"
    /\ \E log \in {None, LogPath}, particles \in BOOLEAN :
         IF MainKeywords \subseteq AppParameters
         THEN /\ \E sprite \in BOOLEAN : AppInit(log, sprite)
              /\ lastCall' = [op |-> "main", log |-> log, particles |-> particles,
                              raised |-> "none"]
         ELSE /\ app' = [app EXCEPT !.status = "crashed"]
              /\ lastCall' = [op |-> "main", log |-> log, particles |-> particles,
                              raised |-> "TypeError"]
              /\ UNCHANGED <<readerVars, particleVars, lastSlow>>

\* The slow tick, RocketVisualizerApp.read_log_data: one poll of the reader,
\* stored as the current sample.  An exception of the poll leaves the
\* assignment undone and ends the application.
ReadLogData ==
    /\ app.status = "running"
    /\ ReadLatestData
    /\ IF lastCall'.propagated
       THEN /\ app' = [app EXCEPT !.status = "crashed"]
            /\ UNCHANGED lastSlow
       ELSE /\ app' = read_log_data(app, lastCall'.ret)
            /\ lastSlow' = lastCall'.ret

\* The fast tick, RocketVisualizerApp.update(dt): colour, rotation, the two
\* emitters at the window's centre, then the particle update.
AppUpdate ==
    /\ app.status = "running"
    /\ \E dt \in DtVals :
         LET d  == app.current_data
             ax == d.acceleration_x
             ay == d.acceleration_y
             az == d.acceleration_z
         IN  \E xdraws \in (IF enabled THEN [1..NumExhaust(ax, ay, az) -> ExhaustDraws]
                            ELSE {<<>>}),
                ddraws \in (IF enabled THEN [1..NumDust(ax, ay, az) -> DustDraws]
                            ELSE {<<>>}) :
               /\ app' = update_rotation([app EXCEPT !.bg_color = update_color(d.altitude)],
                                         d.pitch)
               /\ exhaust_particles' =
                    UpdatePopulation(
                        create_exhaust_particles(enabled, exhaust_particles,
                            WindowWidth \div 2, WindowHeight \div 2,
                            ax, ay, az, d.pitch, xdraws), dt)
               /\ dust_particles' =
                    UpdatePopulation(
                        create_dust_particles(enabled, dust_particles,
                            ax, ay, az, d.pitch, ddraws), dt)
               /\ lastCall' = [op |-> "App.update", dt |-> dt,
                               altitude |-> d.altitude, pitch |-> d.pitch,
                               accel |-> <<ax, ay, az>>]
    /\ UNCHANGED <<enabled, readerVars, lastSlow>>

\* Before the application is started.
InitApp ==
    /\ log_file_path = None
    /\ test_generator = None
    /\ reader_current_data = LogData
    /\ file = AbsentFile
    /\ lastGood = LogData
    /\ ParticleSystem(FALSE)
    /\ WithoutApp
    /\ lastCall = [op |-> "init"]

NextApp == Main \/ Construct \/ ReadLogData \/ AppUpdate \/ FileChange

SpecApp == InitApp /\ [][NextApp]_vars

(***************************************************************************)
(* Claims on the application                                               *)
(***************************************************************************)
\* C7: every fast tick takes the background colour, the rotation and the
\* emitters' inputs from the sample the most recent slow tick was handed (the
\* all-zero sample before the first one); a fast tick leaves the current sample
\* alone and a slow tick leaves both particle populations alone.
C7_TicksDecoupled ==
    /\ [](lastCall.op = "App.update" =>
            /\ app.bg_color = update_color(lastSlow.altitude)
            /\ app.rocket_sprite => app.rotation = -lastSlow.pitch
            /\ lastCall.altitude = lastSlow.altitude
            /\ lastCall.pitch = lastSlow.pitch
            /\ lastCall.accel = <<lastSlow.acceleration_x, lastSlow.acceleration_y,
                                  lastSlow.acceleration_z>>)
    /\ [][lastCall'.op = "App.update" => app'.current_data = app.current_data]_vars
    /\ [][lastCall'.op = "read_latest_data" =>
             UNCHANGED <<exhaust_particles, dust_particles>>]_vars

\* C7 witness: a fast tick has run on a polled sample that moved the colour
\* and the rotation away from their initial values.
C7_Witness ==
    /\ lastCall.op = "App.update"
    /\ lastSlow # LogData
    /\ app.bg_color # SkyBlue
    /\ app.rocket_sprite /\ app.rotation # 0
    /\ lastCall.accel # <<0, 0, 0>>

\* C9: an application started by main() is running, and its particle engine
\* is enabled exactly when the particles flag was given.
C9_LauncherStartsApp ==
    lastCall.op = "main" =>
        /\ app.status = "running"
        /\ enabled <=> lastCall.particles


(***************************************************************************)
(* Claims on the dust emitter's count                                      *)
(***************************************************************************)
\* C11: on an enabled system one call of create_dust_particles appends
\* exactly n particles to the dust population, where n <= 1.5 * m < n + 1 for
\* the Euclidean magnitude m of the acceleration (which is
\* floor(3 * max(0.1, 0.5 * m)), zero whenever m < 2/3), and leaves the
\* exhaust population alone.
C11_DustCount ==
    [][ (enabled /\ lastCall'.op = "create_dust_particles") =>
          LET a  == lastCall'.accel
              sq == a[1] * a[1] + a[2] * a[2] + a[3] * a[3]
              n  == Len(dust_particles') - Len(dust_particles)
          IN  /\ n >= 0
              /\ 4 * n * n * 1000000 <= 9 * sq
              /\ 9 * sq < 4 * (n + 1) * (n + 1) * 1000000
              /\ (9 * sq < 4 * 1000000) => n = 0
              /\ SubSeq(dust_particles', 1, Len(dust_particles)) = dust_particles
              /\ exhaust_particles' = exhaust_particles ]_vars

\* C11 witness: an acceleration of magnitude 0.7 has added its one dust
\* particle to a population that held one already.
C11_Witness ==
    /\ enabled
    /\ lastCall.op = "create_dust_particles"
    /\ lastCall.accel = <<0, 700, 0>>
    /\ Len(dust_particles) = 2
    /\ exhaust_particles = <<>>


(***************************************************************************)
(* The spawn point of create_dust_particles, over windows and pitches      *)
(***************************************************************************)
\* Window sizes <<window_width, window_height>>: the application's, wider
\* and taller ones, odd ones, one smaller than the jitter, and the empty one.
ViewportSizes ==
    { <<600, 600>>, <<800, 600>>, <<600, 800>>, <<601, 601>>, <<50, 50>>,
      <<1, 1>>, <<0, 0>> }

\* The pitches of the trigonometric table, all within [0, 360) degrees.
DustPitches == DOMAIN TrigTable

\* Draws of random.uniform(-100, 100) for random_offset.
DustOffsets == {-100, 0, 37, 100}

\* One pass of the loop body of create_dust_particles up to the clamp.
DustSpawn ==
    /\ \E size \in ViewportSizes, pitch \in DustPitches, offset \in DustOffsets :
         LET t == DustT(size[1], size[2], SinT(pitch), CosT(pitch))
         IN  lastCall' =
               [op |-> "dust_spawn", window_width |-> size[1],
                window_height |-> size[2], pitch |-> pitch, offset |-> offset,
                by |-> t.by, other |-> t.other,
                edge |-> DustEdgeIn(size[1], size[2], pitch),
                unclamped |-> DustUnclamped(size[1], size[2], pitch, offset),
                start |-> DustStart(size[1], size[2], pitch, offset)]
    /\ UNCHANGED <<readerVars, particleVars, appVars>>

InitDust ==
    /\ LogReader(LogPath)
    /\ ParticleSystem(TRUE)
    /\ WithoutApp
    /\ lastCall = [op |-> "init"]

NextDust == DustSpawn

SpecDust == InitDust /\ [][NextDust]_vars

(***************************************************************************)
(* Claims on the dust emitter's geometry                                   *)
(***************************************************************************)
\* C12: for every pitch, offset and window size, a dust particle starts at a
\* position with 0 <= x <= window width and 0 <= y <= window height.
C12_DustStartsInsideViewport ==
    lastCall.op = "dust_spawn" =>
        /\ 0 <= lastCall.start.x /\ lastCall.start.x <= 1000 * lastCall.window_width
        /\ 0 <= lastCall.start.y /\ lastCall.start.y <= 1000 * lastCall.window_height

\* C12 witness: the offset carried the point above the window's top and left
\* of its left side, and the start position is on both limits.
C12_Witness ==
    /\ lastCall.op = "dust_spawn"
    /\ lastCall.window_width > 0
    /\ lastCall.unclamped.y > 1000 * lastCall.window_height
    /\ lastCall.unclamped.x < 0
    /\ lastCall.start.y = 1000 * lastCall.window_height
    /\ lastCall.start.x = 0


(***************************************************************************)
(* BackgroundRenderer.update_color over a range of altitudes               *)
(***************************************************************************)
\* Altitudes from -250 m to 5450 m in steps of 47.5 m, and the four of the
\* documented examples (thousandths of a metre).
AltitudeVals ==
    { 47500 * k - 250000 : k \in 0..120 } \cup {-100000, 0, 5000000, 6000000}

\* A call of update_color on a BackgroundRenderer, whatever colour it holds.
UpdateColor ==
    /\ \E altitude \in AltitudeVals :
         /\ app' = [app EXCEPT !.bg_color = update_color(altitude)]
         /\ lastCall' = [op |-> "update_color", altitude |-> altitude,
                         before |-> app.bg_color]
    /\ UNCHANGED <<readerVars, particleVars, lastSlow>>

InitColor ==
    /\ LogReader(LogPath)
    /\ ParticleSystem(FALSE)
    /\ WithoutApp
    /\ lastCall = [op |-> "init"]

NextColor == UpdateColor

SpecColor == InitColor /\ [][NextColor]_vars

\* C13: the colour after update_color(a) is the colour of
\* update_color(min(5000, max(0, a))), is (135, 206, 235) for a <= 0 and
\* (25, 25, 112) for a >= 5000, and is the same whatever colour was held
\* before the call.
C13_ColorClamped ==
    lastCall.op = "update_color" =>
        LET a == lastCall.altitude
        IN  /\ app.bg_color = update_color(Clamp(0, 5000000, a))
            /\ a <= 0 => app.bg_color = <<135, 206, 235>>
            /\ a >= 5000000 => app.bg_color = <<25, 25, 112>>
            /\ \A i \in 1..3 : 0 <= app.bg_color[i] /\ app.bg_color[i] <= 255

\* C13 witness: update_color(6000) was called on a renderer holding a colour
\* of the middle of the range, and gave midnight blue.
C13_Witness ==
    /\ lastCall.op = "update_color"
    /\ lastCall.altitude = 6000000
    /\ lastCall.before \notin {SkyBlue, MidnightBlue}
    /\ app.bg_color = MidnightBlue


C15_GeneratorClimbs ==
    [][ (test_generator # None /\ lastCall'.op = "read_latest_data") =>
          /\ ~lastCall'.propagated
          /\ IsSample(lastCall'.parsed)
          /\ lastCall'.ret = lastCall'.parsed
          /\ reader_current_data' = lastCall'.ret
          /\ lastCall'.ret.altitude = reader_current_data.altitude + 10000
          /\ lastCall'.ret.altitude > reader_current_data.altitude
          /\ -15000 <= lastCall'.ret.pitch /\ lastCall'.ret.pitch <= 15000 ]_vars

\* C15 witness: the third poll in a row returned altitude 30 with the pitch at
\* its lower limit.
C15_Witness ==
    /\ log_file_path = None
    /\ lastCall.op = "read_latest_data"
    /\ lastCall.generated
    /\ lastCall.ret.altitude = 30000
    /\ lastCall.ret.pitch = -15000


(***************************************************************************)
(* Claims on the final fade frame                                          *)
(***************************************************************************)
\* C16: a particle whose life reaches <= 0 during an update is still in its
\* population, in its place and with alpha 0, when the update returns; the
\* draw that follows draws a circle for it, with opacity 0; and the next
\* update keeps no particle whose life was <= 0 before it.
C16_FinalFadeFrameDrawn ==
    [][ /\ lastCall'.op = "update" =>
            \A pop \in {<<exhaust_particles, exhaust_particles'>>,
                        <<dust_particles, dust_particles'>>} :
                LET live == SelectSeq(pop[1], is_alive)
                IN  /\ Len(pop[2]) = Len(live)
                    /\ \A i \in 1..Len(live) :
                          /\ pop[2][i].life = live[i].life - lastCall'.dt
                          /\ pop[2][i].life <= 0 => pop[2][i].color[4] = 0
        /\ lastCall'.op = "draw" =>
            /\ UNCHANGED <<exhaust_particles, dust_particles>>
            /\ Len(lastCall'.drawn) = Len(dust_particles) + Len(exhaust_particles)
            /\ \A i \in 1..Len(dust_particles) :
                  lastCall'.drawn[i].opacity = dust_particles[i].color[4]
            /\ \A i \in 1..Len(exhaust_particles) :
                  lastCall'.drawn[Len(dust_particles) + i].opacity
                      = exhaust_particles[i].color[4] ]_vars

\* C16 witness: a draw has drawn, with opacity 0, an exhaust particle whose
\* life the update before brought to <= 0, beside a dust particle still
\* visible.
C16_Witness ==
    /\ lastCall.op = "draw"
    /\ Len(exhaust_particles) = 1 /\ Len(dust_particles) = 1
    /\ exhaust_particles[1].life <= 0
    /\ lastCall.drawn[2].opacity = 0
    /\ lastCall.drawn[1].opacity > 0


(***************************************************************************)
(* Claims on the edge point                                                *)
(***************************************************************************)
\* C17: for every pitch and window size the edge point computed before the
\* offset and the clamp lies on the boundary of the window's rectangle.
C17_EdgePointOnBoundary ==
    lastCall.op = "dust_spawn" =>
        LET e == lastCall.edge
            w == 1000 * lastCall.window_width
            h == 1000 * lastCall.window_height
        IN  /\ 0 <= e.x /\ e.x <= w
            /\ 0 <= e.y /\ e.y <= h
            /\ e.x \in {0, w} \/ e.y \in {0, h}

\* C18: for every pitch the edge test divides by the direction component of
\* larger absolute value, which is never zero; when one component is zero the
\* other axis is used; nothing is raised.
C18_NoZeroDivisor ==
    lastCall.op = "dust_spawn" =>
        LET nose_dx == SinT(lastCall.pitch)
            nose_dy == CosT(lastCall.pitch)
        IN  /\ lastCall.edge.raised = "none"
            /\ lastCall.by # 0
            /\ lastCall.by \in {nose_dx, nose_dy}
            /\ \A c \in {nose_dx, nose_dy} : Abs(lastCall.by) >= Abs(c)
            /\ nose_dx = 0 => lastCall.by = nose_dy
            /\ nose_dy = 0 => lastCall.by = nose_dx

\* C18 witness: at pitch 0 the sideways component is zero, the division was
\* by the vertical one and the edge point is the middle of the top edge.
C18_Witness ==
    /\ lastCall.op = "dust_spawn"
    /\ lastCall.pitch = 0
    /\ SinT(lastCall.pitch) = 0
    /\ lastCall.by = 1000
    /\ lastCall.edge.raised = "none"
    /\ lastCall.window_width = 600
    /\ lastCall.edge = [raised |-> "none", x |-> 300000, y |-> 600000]


(***************************************************************************)
(* The particle system once spawning has stopped                           *)
(***************************************************************************)
\* Accelerations at which both emitters create at least one particle.
DrainAccelVals == { a \in AccelVals : NumDust(a[1], a[2], a[3]) >= 1 }

\* An enabled system after one call of each emitter.
InitDrain ==
    /\ LogReader(LogPath)
    /\ WithoutApp
    /\ enabled = TRUE
    /\ \E a \in DrainAccelVals, pitch \in PitchVals :
         /\ \E draws \in [1..NumExhaust(a[1], a[2], a[3]) -> ExhaustDraws] :
              exhaust_particles =
                  create_exhaust_particles(TRUE, <<>>, WindowWidth \div 2,
                      WindowHeight \div 2, a[1], a[2], a[3], pitch, draws)
         /\ \E draws \in [1..NumDust(a[1], a[2], a[3]) -> DustDraws] :
              dust_particles =
                  create_dust_particles(TRUE, <<>>, a[1], a[2], a[3], pitch, draws)
         /\ lastCall = [op |-> "create_dust_particles", accel |-> a]

NextDrain == Update \/ Draw

\* The clock calls update again and again (pyglet.clock.schedule_interval).
SpecDrain == InitDrain /\ [][NextDrain]_vars /\ WF_vars(Update)

\* C19: every update with dt > 0 lowers the life of each particle it keeps
\* by dt and keeps none whose life was <= 0 before it, so a particle of life L
\* is gone after finitely many updates; once spawning has stopped both
\* populations eventually become empty and stay empty.
C19_PopulationsDrain ==
    /\ <>[](exhaust_particles = <<>> /\ dust_particles = <<>>)
    /\ [][ lastCall'.op = "update" =>
             /\ lastCall'.dt > 0
             /\ Len(Particles') <= Len(Particles)
             /\ \A i \in 1..Len(Particles') :
                   /\ Particles'[i].life > -lastCall'.dt
                   /\ \E k \in 1..Len(Particles) :
                         Particles'[i].life = Particles[k].life - lastCall'.dt ]_vars

\* C19 witness: updates alone have emptied both populations of a system
\* that started with particles in each.
C19_Witness ==
    /\ enabled
    /\ lastCall.op = "update"
    /\ exhaust_particles = <<>>
    /\ dust_particles = <<>>

=============================================================================
